---------------------------- MODULE Spec2Model ----------------------------
(***************************************************************************)
(* A model of gikumar/semanticagents: the FastAPI transport (main.py), the *)
(* tool-calling orchestrator (agent/orchestratoragent.py) and the          *)
(* Databricks Tool Provider (plugins/databricks_plugin.py).                *)
(*                                                                         *)
(* Texts the code inspects character by character (SQL queries, goals)     *)
(* are sequences of one-character strings.  Texts the code only builds     *)
(* (answers, error messages) are sequences of pieces: a literal of the     *)
(* source is one piece, computed content is spelled character by           *)
(* character.  A Python call either returns or raises; its outcome is a    *)
(* record [kind, val].                                                     *)
(***************************************************************************)
EXTENDS Integers, Sequences, FiniteSets, TLC

VARIABLES
    started,       \* main.py: the startup event has run
    env,           \* the process environment read by AgentConfig.from_env / __init__
    agent,         \* main.py:49 the module-level `agent`
    chat_history,  \* orchestratoragent.py:58 self.chat_history, one per agent
    req,           \* the /ask requests: position and locals of each handler
    tool           \* one Tool Provider call: its inputs, the query sent, its outcome

vars == <<started, env, agent, chat_history, req, tool>>

(***************************************************************************)
(* Bounds of the model.                                                    *)
(***************************************************************************)
NReq == 2        \* concurrent /ask requests
MaxRows == 3     \* rows stored in the backend table
MaxWidth == 3    \* cells per backend row
MaxLimit == 3    \* the `limit` argument of execute_sql_query ranges over 0..MaxLimit

(***************************************************************************)
(* Python values and outcomes.                                             *)
(***************************************************************************)
\* An optional value: Python's None, or a value.
Nothing == [some |-> FALSE]

Some(v) == [some |-> TRUE, v |-> v]

Ret(v) == [kind |-> "return", val |-> v]

Raise(type, msg) == [kind |-> "raise", val |-> [type |-> type, msg |-> msg]]

\* The classes `except Exception` catches: every exception the model raises
\* derives from Exception (fastapi.HTTPException included).
IsException(e) ==
    e.type \in {"ValueError", "RuntimeError", "TypeError", "IndexError", "KeyError",
                "Exception", "HTTPException", "ServerOperationError", "ServiceError"}

(***************************************************************************)
(* str methods, on sequences of characters.                                *)
(***************************************************************************)
LowerAlpha ==
    <<"a","b","c","d","e","f","g","h","i","j","k","l","m",
      "n","o","p","q","r","s","t","u","v","w","x","y","z">>

UpperAlpha ==
    <<"A","B","C","D","E","F","G","H","I","J","K","L","M",
      "N","O","P","Q","R","S","T","U","V","W","X","Y","Z">>

Whitespace == {" ", "\n", "\t"}

UpperChar(c) ==
    IF \E i \in 1..26 : LowerAlpha[i] = c
    THEN UpperAlpha[CHOOSE i \in 1..26 : LowerAlpha[i] = c]
    ELSE c

LowerChar(c) ==
    IF \E i \in 1..26 : UpperAlpha[i] = c
    THEN LowerAlpha[CHOOSE i \in 1..26 : UpperAlpha[i] = c]
    ELSE c

\* s.upper()
Upper(s) == [i \in 1..Len(s) |-> UpperChar(s[i])]

\* s.lower()
Lower(s) == [i \in 1..Len(s) |-> LowerChar(s[i])]

\* s.lstrip(): leading whitespace removed
LStrip(s) ==
    IF \A i \in 1..Len(s) : s[i] \in Whitespace
    THEN <<>>
    ELSE SubSeq(s, CHOOSE i \in 1..Len(s) :
                       /\ s[i] \notin Whitespace
                       /\ \A j \in 1..(i-1) : s[j] \in Whitespace,
                Len(s))

\* s.rstrip(chars): trailing characters of the set removed
RStripSet(s, chars) ==
    IF \A i \in 1..Len(s) : s[i] \in chars
    THEN <<>>
    ELSE SubSeq(s, 1, CHOOSE i \in 1..Len(s) :
                          /\ s[i] \notin chars
                          /\ \A j \in (i+1)..Len(s) : s[j] \in chars)

\* s.strip()
Strip(s) == RStripSet(LStrip(s), Whitespace)

\* s.startswith(p)
StartsWith(s, p) == Len(p) <= Len(s) /\ SubSeq(s, 1, Len(p)) = p

\* p in s
Contains(s, p) ==
    \E i \in 1..(Len(s) - Len(p) + 1) : SubSeq(s, i, i + Len(p) - 1) = p

Digits == <<"0","1","2","3","4","5","6","7","8","9">>

RECURSIVE NatToStr(_)
NatToStr(n) ==
    IF n < 10 THEN <<Digits[n + 1]>>
    ELSE NatToStr(n \div 10) \o <<Digits[(n % 10) + 1]>>

\* str(n) for an int
IntToStr(n) == IF n < 0 THEN <<"-">> \o NatToStr(-n) ELSE NatToStr(n)

\* The positions where a word (a maximal run of non-whitespace) starts.
WordStarts(s) ==
    {i \in 1..Len(s) : s[i] \notin Whitespace /\ (i = 1 \/ s[i-1] \in Whitespace)}

\* The word that starts at position i.
WordAt(s, i) ==
    SubSeq(s, i, CHOOSE j \in i..Len(s) :
                    /\ \A m \in i..j : s[m] \notin Whitespace
                    /\ (j = Len(s) \/ s[j+1] \in Whitespace))

\* s.split(): the words of s, in order
Split(s) ==
    [k \in 1..Cardinality(WordStarts(s)) |->
        WordAt(s, CHOOSE i \in WordStarts(s) :
                     Cardinality({j \in WordStarts(s) : j < i}) = k - 1)]

\* sep.join(parts)
RECURSIVE Join(_, _)
Join(parts, sep) ==
    IF parts = <<>> THEN <<>>
    ELSE IF Len(parts) = 1 THEN parts[1]
    ELSE parts[1] \o sep \o Join(Tail(parts), sep)

\* f"{s:15}": s padded with spaces on the right to PadWidth characters
PadWidth == 15

Pad(s) == s \o [i \in 1..(PadWidth - Len(s)) |-> " "]


(***************************************************************************)
(* Literals of the source that the code or the backend reads by character. *)
(***************************************************************************)
kwSELECT == <<"S","E","L","E","C","T">>

kwLIMIT == <<"L","I","M","I","T">>

strDefault == <<"d","e","f","a","u","l","t">>

strShowTablesIn == <<"S","H","O","W"," ","T","A","B","L","E","S"," ","I","N"," ">>

strDescribeTable == <<"D","E","S","C","R","I","B","E"," ","T","A","B","L","E"," ">>

strTelemetry == <<"t","e","l","e","m","e","t","r","y","_","d","a","t","a">>

\* "SELECT COUNT(*) as total_records FROM telemetry_data"
strCountQuery ==
    kwSELECT \o <<" ","C","O","U","N","T","(","*",")"," ","a","s"," ",
                  "t","o","t","a","l","_","r","e","c","o","r","d","s"," ",
                  "F","R","O","M"," ">> \o strTelemetry

DefaultLimit == 100

(***************************************************************************)
(* The query backend (databricks.sql), an external oracle.  A backend is   *)
(* its credentials, whether connect and execute succeed, and the table it  *)
(* holds: `stored` rows of `width` integer cells, with or without column   *)
(* metadata, of JSON-serialisable type or not (Decimal, datetime).         *)
(***************************************************************************)
HealthyBackends ==
    [creds : {TRUE}, connect : {"ok"}, fault : {"none"},
     stored : 0..MaxRows, width : 1..MaxWidth, meta : BOOLEAN, jsonable : BOOLEAN]

FailingBackends ==
    [creds : {FALSE}, connect : {"ok"}, fault : {"none"},
     stored : {1}, width : {2}, meta : {TRUE}, jsonable : {TRUE}]
    \cup
    [creds : {TRUE}, connect : {"fail"}, fault : {"none"},
     stored : {1}, width : {2}, meta : {TRUE}, jsonable : {TRUE}]
    \cup
    [creds : {TRUE}, connect : {"ok"}, fault : {"generic", "table", "column"},
     stored : {1}, width : {2}, meta : {TRUE}, jsonable : {TRUE}]

Backends == HealthyBackends \cup FailingBackends

IsNumeral(w) == w # <<>> /\ \A i \in 1..Len(w) : \E d \in 1..10 : Digits[d] = w[i]

RECURSIVE StrToNat(_)
StrToNat(w) ==
    IF w = <<>> THEN 0
    ELSE 10 * StrToNat(SubSeq(w, 1, Len(w) - 1))
         + (CHOOSE d \in 0..9 : Digits[d + 1] = w[Len(w)])

\* The statement the backend runs: the text without trailing blanks and semicolons.
Statement(q) == RStripSet(q, Whitespace \cup {";"})

\* The LIMIT clause of a statement: absent, a number, or bad (no number follows).
LimitClauseAfter(w, i) ==
    IF i < Len(w) /\ IsNumeral(w[i + 1])
    THEN [k |-> "number", n |-> StrToNat(w[i + 1])]
    ELSE [k |-> "bad"]

LimitClauseAt(w, at) ==
    IF at = {} THEN [k |-> "absent"]
    ELSE LimitClauseAfter(w, CHOOSE k \in at : \A m \in at : m <= k)

LimitClauseOf(w) == LimitClauseAt(w, {i \in 1..Len(w) : w[i] = kwLIMIT})

LimitClause(q) == LimitClauseOf(Split(Upper(Statement(q))))

Min(a, b) == IF a < b THEN a ELSE b

BackendRows(n, w) == [i \in 1..n |-> [j \in 1..w |-> 10 * i + j]]

\* cursor.description: one (name, type, ...) tuple per column
Description(w) == [j \in 1..w |-> <<<<"c">> \o IntToStr(j), <<"i","n","t">>>>]

\* sql.connect(...)
sql_connect(b) ==
    IF b.connect = "fail"
    THEN Raise("ServiceError", <<"Error during request to server">>)
    ELSE Ret("connection")

\* The backend's answer to a statement, given whether it holds several statements
\* and its LIMIT clause.
cursor_result(b, several, lc) ==
    IF b.fault = "table"
    THEN Raise("ServerOperationError", <<"[", "TABLE_OR_VIEW_NOT_FOUND", "] The table cannot be found">>)
    ELSE IF b.fault = "column"
    THEN Raise("ServerOperationError", <<"[", "COLUMN_NOT_FOUND", "] The column cannot be resolved">>)
    ELSE IF b.fault = "generic"
    THEN Raise("ServerOperationError", <<"The operation failed">>)
    ELSE IF several \/ lc.k = "bad"
    THEN Raise("ServerOperationError", <<"[", "PARSE_SYNTAX_ERROR", "] Syntax error">>)
    ELSE Ret([rows |-> BackendRows(IF lc.k = "absent" THEN b.stored
                                   ELSE Min(b.stored, lc.n), b.width),
              description |-> IF b.meta THEN Some(Description(b.width)) ELSE Nothing])

\* cursor.execute(query); cursor.fetchall(); cursor.description
cursor_execute(b, q) ==
    cursor_result(b, Contains(Statement(q), <<";">>), LimitClause(q))

(***************************************************************************)
(* DatabricksPlugin.  A Tool Provider call's outcome carries, besides      *)
(* [kind, val], the query text it sent to cursor.execute, if any.          *)
(***************************************************************************)
Sent(out, q) == [kind |-> out.kind, val |-> out.val, sent |-> q]

\* try: <body> except Exception as e: whether the except clause takes the body's outcome
Caught(out) == out.kind = "raise" /\ IsException(out.val)

_get_connection(b) ==
    IF ~b.creds
    THEN Raise("ValueError", <<"Missing Databricks credentials in environment variables. Please set DATABRICKS_HOST, DATABRICKS_TOKEN, and DATABRICKS_HTTP_PATH.">>)
    ELSE sql_connect(b)

\* `x or default`, for an optional string x
OrDefault(x, d) == IF ~x.some \/ x.v = <<>> THEN d ELSE x.v

list_tables_lines(tables) ==
    [i \in 1..Len(tables) |->
        <<"- ">> \o IntToStr(IF Len(tables[i]) > 1 THEN tables[i][2] ELSE tables[i][1])
                 \o <<"\n">>]

\* Lines 50-65, given the connection and the backend's answer.
list_tables_result(cat, sch, query, conn, res) ==
    IF conn.kind = "raise" THEN Sent(conn, Nothing)
    ELSE IF res.kind = "raise" THEN Sent(res, Some(query))
    ELSE IF res.val.rows = <<>>
    THEN Sent(Ret(<<"No tables found in ">> \o cat \o <<".">> \o sch), Some(query))
    ELSE Sent(Ret(<<"Available tables in ">> \o cat \o <<".">> \o sch \o <<":\n">>
                  \o Join(list_tables_lines(res.val.rows), <<>>)), Some(query))

list_tables_in(cat, sch, b) ==
    list_tables_result(cat, sch, strShowTablesIn \o cat \o <<".">> \o sch,
                       _get_connection(b),
                       cursor_execute(b, strShowTablesIn \o cat \o <<".">> \o sch))

\* Lines 46-65: the body of the try, with the defaults of lines 46-47.
list_tables_body(catalog, schema, b) ==
    list_tables_in(OrDefault(catalog, strDefault), OrDefault(schema, strDefault), b)

\* Lines 49 and 67-68: the except clause, applied to the outcome of the body.
list_tables_except(out) ==
    IF Caught(out)
    THEN Sent(Ret(<<"Error listing tables: ">> \o out.val.msg), out.sent)
    ELSE out

list_tables(catalog, schema, b) ==
    list_tables_except(list_tables_body(catalog, schema, b))

describe_table_lines(columns) ==
    [i \in 1..Len(columns) |->
        IntToStr(columns[i][1]) \o <<" | ">> \o IntToStr(columns[i][2]) \o <<" | ">>
        \o (IF Len(columns[i]) > 2 THEN IntToStr(columns[i][3]) ELSE <<>>) \o <<"\n">>]

\* Lines 91-110, given the connection and the backend's answer.
describe_table_result(full_table_name, query, conn, res) ==
    IF conn.kind = "raise" THEN Sent(conn, Nothing)
    ELSE IF res.kind = "raise" THEN Sent(res, Some(query))
    ELSE IF res.val.rows = <<>>
    THEN Sent(Ret(<<"Table ">> \o full_table_name \o <<" not found or has no columns">>),
              Some(query))
    ELSE IF \E i \in 1..Len(res.val.rows) : Len(res.val.rows[i]) < 2
    THEN Sent(Raise("IndexError", <<"tuple index out of range">>), Some(query))
    ELSE Sent(Ret(<<"Table structure for ">> \o full_table_name \o <<":\n">>
                  \o <<"Column Name | Data Type | Comment\n">>
                  \o [i \in 1..50 |-> "-"] \o <<"\n">>
                  \o Join(describe_table_lines(res.val.rows), <<>>)), Some(query))

describe_table_named(full_table_name, b) ==
    describe_table_result(full_table_name, strDescribeTable \o full_table_name,
                          _get_connection(b),
                          cursor_execute(b, strDescribeTable \o full_table_name))

\* Lines 86-110: the body of the try, with the defaults of lines 86-88.
describe_table_body(table_name, catalog, schema, b) ==
    describe_table_named(OrDefault(catalog, strDefault) \o <<".">>
                         \o OrDefault(schema, strDefault) \o <<".">> \o table_name, b)

\* Lines 90 and 112-113: the except clause, applied to the outcome of the body.
describe_table_except(table_name, out) ==
    IF Caught(out)
    THEN Sent(Ret(<<"Error describing table ">> \o table_name \o <<": ">> \o out.val.msg),
              out.sent)
    ELSE out

\* Lines 86-110 without the except clause of lines 112-113.
describe_table_unguarded(table_name, catalog, schema, b) ==
    describe_table_body(table_name, catalog, schema, b)

describe_table(table_name, catalog, schema, b) ==
    describe_table_except(table_name, describe_table_body(table_name, catalog, schema, b))

\* Lines 132-134: the query handed to cursor.execute.
LimitedQuery(query, limit) ==
    LET query_upper == Strip(Upper(query))
    IN IF StartsWith(query_upper, kwSELECT) /\ ~Contains(query_upper, kwLIMIT)
       THEN RStripSet(query, {";"}) \o <<" ">> \o kwLIMIT \o <<" ">> \o IntToStr(limit)
       ELSE query

\* Line 162: the summary appended "if many rows".
TruncationNotice(limit) ==
    <<"\n(Showing first ">> \o IntToStr(limit)
        \o <<" rows. Use LIMIT in your query to see more.)">>

\* Lines 161-162 with the comparison strict: the summary only past the limit.
ManyRowsStrict(rows, limit) == Len(rows) > limit

\* Lines 161-162: whether the summary is appended.
ManyRows(rows, limit) == Len(rows) >= limit

\* Lines 151-153: the header line and the rule under it.
TableHeader(column_names) ==
    LET header == Join([j \in 1..Len(column_names) |-> Pad(column_names[j])],
                       <<" ", "|", " ">>)
    IN header \o <<"\n">> \o [i \in 1..Len(header) |-> "-"] \o <<"\n">>

\* Lines 156-158: one line per row.
TableRows(rows) ==
    Join([i \in 1..Len(rows) |->
            Join([j \in 1..Len(rows[i]) |-> Pad(IntToStr(rows[i][j]))], <<" ", "|", " ">>)
            \o <<"\n">>],
         <<>>)

\* Lines 148-164: the text for a result set with its column names.
ResultText(rows, column_names, limit) ==
    <<"Query Results (">> \o IntToStr(Len(rows)) \o <<" rows):\n">>
    \o TableHeader(column_names)
    \o TableRows(rows)
    \o (IF ManyRows(rows, limit) THEN TruncationNotice(limit) ELSE <<>>)

\* desc[0] for desc in cursor.description
ColumnNames(description) == [j \in 1..Len(description) |-> description[j][1]]

\* Lines 136-164, given the query sent, the connection and the backend's answer.
execute_sql_query_result(q, limit, conn, res) ==
    IF conn.kind = "raise" THEN Sent(conn, Nothing)
    ELSE IF res.kind = "raise" THEN Sent(res, Some(q))
    ELSE IF res.val.rows = <<>>
    THEN Sent(Ret(<<"Query executed successfully, but no results were returned.">>), Some(q))
    ELSE IF ~res.val.description.some
    THEN Sent(Raise("TypeError", <<"'NoneType' object is not iterable">>), Some(q))
    ELSE Sent(Ret(ResultText(res.val.rows, ColumnNames(res.val.description.v), limit)),
              Some(q))

execute_sql_query_sending(q, limit, b) ==
    execute_sql_query_result(q, limit, _get_connection(b), cursor_execute(b, q))

\* Lines 131-164: the body of the try.
execute_sql_query_body(query, limit, b) ==
    execute_sql_query_sending(LimitedQuery(query, limit), limit, b)

\* Lines 167-173: the text for the message of the exception.
execute_sql_query_error(error_msg) ==
    IF Contains(error_msg, <<"TABLE_OR_VIEW_NOT_FOUND">>)
    THEN <<"Table not found. Error: ">> \o error_msg
         \o <<"\n\nTip: Use the list_tables function to see available tables, or describe_table to check table structure.">>
    ELSE IF Contains(error_msg, <<"COLUMN_NOT_FOUND">>)
    THEN <<"Column not found. Error: ">> \o error_msg
         \o <<"\n\nTip: Use describe_table function to see available columns.">>
    ELSE <<"An error occurred while executing the query: ">> \o error_msg

\* Lines 130 and 166-173: the except clause, applied to the outcome of the body.
execute_sql_query_except(out) ==
    IF Caught(out)
    THEN Sent(Ret(execute_sql_query_error(out.val.msg)), out.sent)
    ELSE out

execute_sql_query(query, limit, b) ==
    execute_sql_query_except(execute_sql_query_body(query, limit, b))

\* json.dumps(obj): the JSON text of obj, kept as the object it spells
JsonDumps(obj) == [fmt |-> "json", obj |-> obj]

Palette ==
    <<"#FF6384", "#36A2EB", "#FFCE56", "#4BC0C0", "#9966FF", "#FF9F40", "#FF6384", "#C9CBCF">>

\* Lines 206-228: the chart descriptor.
ChartData(chart_type, column_names, rows) ==
    [type |-> chart_type,
     data |-> [labels |-> [i \in 1..Len(rows) |-> IntToStr(rows[i][1])],
               datasets |-> <<[label |-> IF Len(column_names) > 1
                                         THEN column_names[2] ELSE <<"Value">>,
                               data |-> [i \in 1..Len(rows) |->
                                            IF Len(column_names) > 1
                                            THEN rows[i][2] ELSE rows[i][1]],
                               backgroundColor |-> Palette]>>],
     options |-> [responsive |-> TRUE,
                  plugins |-> [title |-> [display |-> TRUE, text |-> "Query Results"]]]]

\* Lines 200-233: the JSON text for a result set with its column names.
ChartText(chart_type, column_names, rows) ==
    JsonDumps([graph_data |-> ChartData(chart_type, column_names, rows),
               raw_data |-> [i \in 1..Len(rows) |->
                               [j \in 1..Len(column_names) |->
                                   <<column_names[j], rows[i][j]>>]]])

\* Lines 191-233, given the connection and the backend's answer.
execute_query_for_chart_result(query, chart_type, jsonable, conn, res) ==
    IF conn.kind = "raise" THEN Sent(conn, Nothing)
    ELSE IF res.kind = "raise" THEN Sent(res, Some(query))
    ELSE IF ~res.val.description.some
    THEN Sent(Raise("TypeError", <<"'NoneType' object is not iterable">>), Some(query))
    ELSE IF res.val.rows = <<>>
    THEN Sent(Ret(JsonDumps([error |-> <<"No data returned from query">>])), Some(query))
    ELSE IF ~jsonable
    THEN Sent(Raise("TypeError", <<"Object of type Decimal is not JSON serializable">>),
              Some(query))
    ELSE Sent(Ret(ChartText(chart_type, ColumnNames(res.val.description.v), res.val.rows)),
              Some(query))

\* Lines 191-233: the body of the try.
execute_query_for_chart_body(query, chart_type, b) ==
    execute_query_for_chart_result(query, chart_type, b.jsonable,
                                   _get_connection(b), cursor_execute(b, query))

\* Lines 190 and 235-236: the except clause, applied to the outcome of the body.
execute_query_for_chart_except(out) ==
    IF Caught(out)
    THEN Sent(Ret(JsonDumps([error |-> <<"Error executing query for chart: ">>
                                       \o out.val.msg])), out.sent)
    ELSE out

execute_query_for_chart(query, chart_type, b) ==
    execute_query_for_chart_except(execute_query_for_chart_body(query, chart_type, b))

(***************************************************************************)
(* The Tool Provider on its own: one call of one operation, on inputs      *)
(* drawn from the queries, limits and backends below.                      *)
(***************************************************************************)
strUsers == <<"u","s","e","r","s">>

QueryBodies ==
    { kwSELECT \o <<" ","x"," ","F","R","O","M"," ","t">>,
      <<"s","e","l","e","c","t"," ","x"," ","f","r","o","m"," ","t">>,
      kwSELECT \o <<" ","l","i","m","i","t","s"," ","F","R","O","M"," ","t">>,
      kwSELECT \o <<" ","x"," ","F","R","O","M"," ","t"," ">> \o kwLIMIT \o <<" ","2">>,
      <<"s","e","l","e","c","t"," ","x"," ","f","r","o","m"," ","t"," ",
        "l","i","m","i","t"," ","1">>,
      <<"S","H","O","W"," ","T","A","B","L","E","S">> }

\* Each body as it is, behind a blank, and before a semicolon or a semicolon and a blank.
Queries ==
    {l \o q \o t : l \in {<<>>, <<" ">>}, q \in QueryBodies,
                   t \in {<<>>, <<";">>, <<";", " ">>}}

NoOutcome == [kind |-> "none"]

ToolIdle == [op |-> "none", query |-> <<>>, limit |-> 0,
             b |-> CHOOSE b \in FailingBackends : ~b.creds, out |-> NoOutcome]

ToolInputs ==
    [op : {"none"}, query : Queries, limit : 0..MaxLimit, b : Backends, out : {NoOutcome}]

Call_list_tables ==
    /\ tool.op = "none"
    /\ tool' = [tool EXCEPT !.op = "list_tables",
                            !.out = list_tables(Nothing, Nothing, tool.b)]
    /\ UNCHANGED <<started, env, agent, chat_history, req>>

Call_describe_table ==
    /\ tool.op = "none"
    /\ tool' = [tool EXCEPT !.op = "describe_table",
                            !.out = describe_table(strUsers, Nothing, Nothing, tool.b)]
    /\ UNCHANGED <<started, env, agent, chat_history, req>>

Call_execute_sql_query ==
    /\ tool.op = "none"
    /\ tool' = [tool EXCEPT !.op = "execute_sql_query",
                            !.out = execute_sql_query(tool.query, tool.limit, tool.b)]
    /\ UNCHANGED <<started, env, agent, chat_history, req>>

Call_execute_query_for_chart ==
    /\ tool.op = "none"
    /\ tool' = [tool EXCEPT !.op = "execute_query_for_chart",
                            !.out = execute_query_for_chart(tool.query, "bar", tool.b)]
    /\ UNCHANGED <<started, env, agent, chat_history, req>>

ToolNext ==
    \/ Call_list_tables
    \/ Call_describe_table
    \/ Call_execute_sql_query
    \/ Call_execute_query_for_chart

(***************************************************************************)
(* Chart extraction (orchestratoragent.py:238-264).  The oracle's answer   *)
(* is a sequence of lexemes: a fence, a brace, a JSON string or scalar, a  *)
(* blank, or a run of prose.  A parsed JSON value is [t |-> "dict",        *)
(* items], [t |-> "atom", lex] or PyNone.                                  *)
(***************************************************************************)
PyNone == [t |-> "None"]

\* the opening fence of a json block (three backquotes and the word json)
FenceOpen == "FENCE-json"

\* a closing fence (three backquotes)
FenceClose == "FENCE"

KeyGraphData == "\"graph_data\""

JsonStrings == {KeyGraphData, "\"type\"", "\"bar\"", "\"note\""}

JsonScalars == JsonStrings \cup {"1", "null"}

JAtom(l) == IF l = "null" THEN PyNone ELSE [t |-> "atom", lex |-> l]

JDict(items) == [t |-> "dict", items |-> items]

\* The first position at or after i that holds no blank (Len(t) + 1: none).
SkipWs(t, i) ==
    IF \E j \in i..Len(t) : t[j] \notin Whitespace
    THEN CHOOSE j \in i..Len(t) :
            t[j] \notin Whitespace /\ \A m \in i..(j-1) : t[m] \in Whitespace
    ELSE Len(t) + 1

ParseFail == [ok |-> FALSE, val |-> PyNone, next |-> 0]

RECURSIVE ParseValue(_, _), ParseValueAt(_, _), ParseObject(_, _), ParseMembers(_, _, _),
          ParseColon(_, _, _, _), ParseMember(_, _, _, _), ParseMemberEnd(_, _, _)
\* json: one value starting at or after position i
ParseValue(t, i) == ParseValueAt(t, SkipWs(t, i))

\* json: one value starting at position j, which holds no blank
ParseValueAt(t, j) ==
    IF j > Len(t) THEN ParseFail
    ELSE IF t[j] = "{" THEN ParseObject(t, SkipWs(t, j + 1))
    ELSE IF t[j] \in JsonScalars
    THEN [ok |-> TRUE, val |-> JAtom(t[j]), next |-> j + 1]
    ELSE ParseFail

\* json: an object whose first lexeme after the brace is at position k
ParseObject(t, k) ==
    IF k <= Len(t) /\ t[k] = "}"
    THEN [ok |-> TRUE, val |-> JDict(<<>>), next |-> k + 1]
    ELSE ParseMembers(t, k, <<>>)

\* json: the members of an object, the next key expected at position i
ParseMembers(t, i, acc) ==
    IF i > Len(t) \/ t[i] \notin JsonStrings THEN ParseFail
    ELSE ParseColon(t, i, SkipWs(t, i + 1), acc)

\* json: the colon of the member whose key is at i, expected at position c
ParseColon(t, i, c, acc) ==
    IF c > Len(t) \/ t[c] # ":" THEN ParseFail
    ELSE ParseMember(t, i, ParseValue(t, c + 1), acc)

\* json: the member whose key is at i, its value parsed as v
ParseMember(t, i, v, acc) ==
    IF ~v.ok THEN ParseFail
    ELSE ParseMemberEnd(t, SkipWs(t, v.next), Append(acc, [k |-> t[i], v |-> v.val]))

\* json: what follows a member, at position n: the closing brace or a comma
ParseMemberEnd(t, n, acc) ==
    IF n > Len(t) THEN ParseFail
    ELSE IF t[n] = "}" THEN [ok |-> TRUE, val |-> JDict(acc), next |-> n + 1]
    ELSE IF t[n] = "," THEN ParseMembers(t, SkipWs(t, n + 1), acc)
    ELSE ParseFail

\* json.loads, given the value parsed at the start of the text
json_loads_parsed(t, v) ==
    IF v.ok /\ SkipWs(t, v.next) > Len(t)
    THEN Ret(v.val)
    ELSE Raise("ValueError", <<"Expecting value">>)

\* json.loads(text)
json_loads(t) == json_loads_parsed(t, ParseValue(t, 1))

\* key in data
HasKey(data, key) ==
    data.t = "dict" /\ \E i \in 1..Len(data.items) : data.items[i].k = key

\* data[key]: of a repeated key, json.loads keeps the last value
DictGet(data, key) ==
    data.items[CHOOSE i \in 1..Len(data.items) :
                  /\ data.items[i].k = key
                  /\ \A j \in (i+1)..Len(data.items) : data.items[j].k # key].v

\* Lines 243-244, re.search of the fenced-object pattern with DOTALL: the places
\* where an opening fence, blanks, a brace ... a brace, blanks and a closing fence
\* match; the three backquotes that open a json block match as a closing fence too
FenceMatches(t) ==
    {m \in (1..Len(t)) \X (1..Len(t)) \X (1..Len(t)) :
        /\ t[m[1]] = FenceOpen
        /\ m[2] = SkipWs(t, m[1] + 1)
        /\ t[m[2]] = "{"
        /\ m[3] > m[2]
        /\ t[m[3]] = "}"
        /\ SkipWs(t, m[3] + 1) <= Len(t)
        /\ t[SkipWs(t, m[3] + 1)] \in {FenceClose, FenceOpen}}

\* The leftmost match with the shortest group: the first and last position of the
\* group, <<0, 0>> when nothing matches.
LeftmostShortest(ms) ==
    IF ms = {} THEN <<0, 0>>
    ELSE (LET m == CHOOSE x \in ms :
                      \A y \in ms : x[1] < y[1] \/ (x[1] = y[1] /\ x[3] <= y[3])
          IN <<m[2], m[3]>>)

re_search_json(t) == LeftmostShortest(FenceMatches(t))

\* Lines 254-257, given the stripped text and the outcome of json.loads.
extract_direct_from(stripped, data) ==
    IF stripped # <<>> /\ stripped[1] = "{" /\ data.kind = "return"
       /\ HasKey(data.val, KeyGraphData)
    THEN DictGet(data.val, KeyGraphData)
    ELSE PyNone

\* Lines 252-259: the whole response as one JSON document.
extract_direct(response_text) ==
    extract_direct_from(Strip(response_text), json_loads(response_text))

\* Lines 248-259, given the outcome of json.loads on the fenced group: a parse
\* error leaves through the outer except clause.
extract_fenced_from(response_text, data) ==
    IF data.kind = "raise" THEN PyNone
    ELSE IF HasKey(data.val, KeyGraphData) THEN DictGet(data.val, KeyGraphData)
    ELSE extract_direct(response_text)

\* Lines 246-259, given the match of the fenced pattern.
extract_matched(response_text, match) ==
    IF match # <<0, 0>>
    THEN extract_fenced_from(response_text,
                             json_loads(SubSeq(response_text, match[1], match[2])))
    ELSE extract_direct(response_text)

_extract_chart_data(response_text) ==
    extract_matched(response_text, re_search_json(response_text))

\* Line 143: "graph_data" in result_text
MentionsGraphData(result_text) ==
    \E i \in 1..Len(result_text) : result_text[i] \in {KeyGraphData, "graph_data"}

(***************************************************************************)
(* The heuristic fallback (orchestratoragent.py:174-236).                  *)
(***************************************************************************)
kw_chart == <<"c","h","a","r","t">>

kw_graph == <<"g","r","a","p","h">>

\* Line 183: "list", "show", "available", "tables"
ListWords ==
    << <<"l","i","s","t">>, <<"s","h","o","w">>,
       <<"a","v","a","i","l","a","b","l","e">>, <<"t","a","b","l","e","s">> >>

\* Line 192: "describe", "structure", "columns", "schema"
DescribeWords ==
    << <<"d","e","s","c","r","i","b","e">>, <<"s","t","r","u","c","t","u","r","e">>,
       <<"c","o","l","u","m","n","s">>, <<"s","c","h","e","m","a">> >>

\* Line 210: "count", "total", "number"
CountWords ==
    << <<"c","o","u","n","t">>, <<"t","o","t","a","l">>, <<"n","u","m","b","e","r">> >>

\* Line 221 with the two words of line 143 only.
ChartWordsShort == << kw_chart, kw_graph >>

\* Line 221: "chart", "graph", "visualize", "plot"
ChartWords ==
    << kw_chart, kw_graph, <<"v","i","s","u","a","l","i","z","e">>, <<"p","l","o","t">> >>

\* Line 198: the words that are no table name
StopWords ==
    { <<"d","e","s","c","r","i","b","e">>, <<"t","a","b","l","e">>,
      <<"s","t","r","u","c","t","u","r","e">>, <<"c","o","l","u","m","n","s">>,
      <<"s","c","h","e","m","a">>, <<"o","f">>, <<"t","h","e">>, <<"w","h","a","t">>,
      <<"i","s">> }

\* any(word in goal_lower for word in family)
AnyWordIn(family, goal_lower) ==
    \E i \in 1..Len(family) : Contains(goal_lower, family[i])

\* Lines 195-200: the first word outside the stop list, if there is one.
FirstWordAt(words, at) ==
    IF at = {} THEN Nothing
    ELSE Some(words[CHOOSE i \in at : \A j \in at : i <= j])

FirstNonStopWord(words) ==
    FirstWordAt(words, {i \in 1..Len(words) : words[i] \notin StopWords})

GuessTableName(goal_lower) == FirstNonStopWord(Split(goal_lower))

ClarificationText ==
    <<"For chart creation, I need a specific SQL query. Please specify what data you want to visualize and I'll help create the appropriate query.">>

CapabilityText ==
    <<"I understand you want to work with Databricks data. Could you please be more specific? I can help you:\n- List available tables\n- Describe table structures\n- Execute SQL queries\n- Create visualizations">>

FallbackResult(goal, result) == [goal |-> goal, result |-> result, status |-> "success"]

\* await plugin[name].invoke(self.kernel, ...): the kernel runs the tool and hands
\* back its text, or the invocation itself raises
Invoke(invoke, toolOut) ==
    IF invoke = "raise" THEN Raise("Exception", <<"Error occurred while invoking function">>)
    ELSE IF toolOut.kind = "raise" THEN [kind |-> "raise", val |-> toolOut.val]
    ELSE Ret(toolOut.val)

\* Lines 231-236.
fallback_default(goal) == Ret(FallbackResult(goal, CapabilityText))

\* Lines 185-190 with the status taken from the tool's text: an error text of the
\* Tool Provider reported as a failure.
fallback_list_reporting_errors(goal, result) ==
    IF result.kind = "raise" THEN result
    ELSE Ret([goal |-> goal,
              result |-> <<"Here are the available tables:\n">> \o result.val,
              status |-> IF result.val[1] = "Error listing tables: "
                         THEN "error" ELSE "success"])

\* Lines 185-190, given the outcome of the invocation.
fallback_list(goal, result) ==
    IF result.kind = "raise" THEN result
    ELSE Ret(FallbackResult(goal, <<"Here are the available tables:\n">> \o result.val))

\* Lines 203-208, given the outcome of the invocation.
fallback_described(goal, table_name, result) ==
    IF result.kind = "raise" THEN result
    ELSE Ret(FallbackResult(goal, <<"Table structure for ">> \o table_name \o <<":\n">>
                                  \o result.val))

\* Lines 195-208: no return when no table name is found, and so the default.
fallback_describe(goal, table_name, b, invoke) ==
    IF table_name.some
    THEN fallback_described(goal, table_name.v,
                            Invoke(invoke, describe_table(table_name.v, Nothing, Nothing, b)))
    ELSE fallback_default(goal)

\* Lines 213-219, given the outcome of the invocation.
fallback_count(goal, result) ==
    IF result.kind = "raise" THEN result
    ELSE Ret(FallbackResult(goal, <<"I executed this query to get the count: ">>
                                  \o strCountQuery \o <<"\n\nResult:\n">> \o result.val))

\* Lines 183-236: the keyword families, first match wins.
fallback_intent(goal, goal_lower, b, invoke) ==
    IF AnyWordIn(ListWords, goal_lower)
    THEN fallback_list(goal, Invoke(invoke, list_tables(Nothing, Nothing, b)))
    ELSE IF AnyWordIn(DescribeWords, goal_lower)
    THEN fallback_describe(goal, GuessTableName(goal_lower), b, invoke)
    ELSE IF AnyWordIn(CountWords, goal_lower)
    THEN IF Contains(goal_lower, strTelemetry)
         THEN fallback_count(goal, Invoke(invoke,
                                          execute_sql_query(strCountQuery, DefaultLimit, b)))
         ELSE fallback_default(goal)
    ELSE IF AnyWordIn(ChartWords, goal_lower)
    THEN Ret(FallbackResult(goal, ClarificationText))
    ELSE fallback_default(goal)

_intelligent_fallback(goal, plugins, b, invoke) ==
    IF "DatabricksPlugin" \notin plugins
    THEN Raise("Exception", <<"DatabricksPlugin not found">>)
    ELSE fallback_intent(goal, Lower(goal), b, invoke)

(***************************************************************************)
(* The orchestrator's run (orchestratoragent.py:60-172) and the /ask       *)
(* handler (main.py:78-115).                                               *)
(***************************************************************************)
Reqs == 1..NReq

\* "Show tables"
gShowTables == <<"S","h","o","w"," ","t","a","b","l","e","s">>

\* "plot a chart"
gChart == <<"p","l","o","t"," ","a"," ","c","h","a","r","t">>

\* The goals the requests carry: one the fallback answers with a tool, one it
\* answers without.
Goals == {gShowTables, gChart}

\* Lines 66-86.
system_message ==
    <<"You are a helpful AI assistant specialized in data analysis using Databricks. ...">>

\* What the oracle answers with: prose, and a fenced JSON object holding a chart.
AnswerProse == <<"There are 3 tables in the database.">>

AnswerChart ==
    <<"Here is your chart:", "\n", FenceOpen, "\n",
      "{", KeyGraphData, ":", " ", "{", "\"type\"", ":", "\"bar\"", "}", "}",
      "\n", FenceClose>>

Answers == {AnswerProse, AnswerChart}

\* get_chat_message_contents: it raises, returns no message, or returns an answer.
OracleKinds == {"raise", "empty", "answer"}

\* The backends the fallback's tool calls meet.
FallbackBackends ==
    {b \in Backends : ~b.creds
                      \/ (b.fault = "none" /\ b.connect = "ok" /\ b.stored = 1
                          /\ b.width = 2 /\ b.meta /\ b.jsonable)}

IdleReq ==
    [pc |-> "idle", prompt |-> <<>>, e |-> [type |-> "none", msg |-> <<>>],
     out |-> NoOutcome, http |-> [code |-> 0],
     runCalls |-> 0, raisedAt |-> "none", fbCalls |-> 0, fbGoal |-> <<>>,
     fb |-> NoOutcome]

Message(role, content, r) == [role |-> role, content |-> content, by |-> r]

\* raise HTTPException(status_code, detail); str(e) is "<status>: <detail>"
HTTPException(status_code, detail) ==
    [kind |-> "raise",
     val |-> [type |-> "HTTPException", status_code |-> status_code, detail |-> detail,
              msg |-> IntToStr(status_code) \o <<": ">> \o detail]]

\* What FastAPI answers for an outcome of ask_agent.
HttpResponse(out) ==
    IF out.kind = "return" THEN [code |-> 200, body |-> out.val]
    ELSE IF out.val.type = "HTTPException"
    THEN [code |-> out.val.status_code, body |-> [detail |-> out.val.detail]]
    ELSE [code |-> 500, body |-> [detail |-> <<"Internal Server Error">>]]

\* main.py:109-115, the except clause of ask_agent.
ask_agent_except(e) ==
    HTTPException(500, <<"Internal server error: ">> \o e.msg)

\* main.py:88-115, try ... except Exception: an exception of the body, the
\* HTTPException of line 91 included, is answered by the except clause.
ask_agent_try(out) ==
    IF out.kind = "raise" /\ IsException(out.val) THEN ask_agent_except(out.val) ELSE out

\* main.py:99-107, the response built from run's result.
formatted_response(out) ==
    Ret([response |-> out.result, graph_data |-> PyNone, status |-> out.status])

\* main.py:51-65.
startup_event(e) ==
    IF e.endpoint = "" \/ e.api_key = "" THEN Nothing
    ELSE IF e.ctor = "raise" THEN Nothing
    ELSE Some([plugins |-> {"DatabricksPlugin"}])

\* orchestratoragent.py:94-120: which imports succeed decides the execution
\* settings ("auto": the first; "plain": the second; "none": neither, and
\* execution_settings is None); "raise": building them raises something other
\* than ImportError, which no inner clause catches.
SettingsKinds == {"auto", "plain", "none", "raise"}

execution_settings(kind) ==
    IF kind = "auto" THEN Ret("OpenAIPromptExecutionSettings")
    ELSE IF kind = "plain" THEN Ret("PromptExecutionSettings")
    ELSE IF kind = "none" THEN Ret("None")
    ELSE Raise("TypeError", <<"unexpected keyword argument">>)

\* orchestratoragent.py:143: whether chart extraction is tried.
ChartTrigger(goal_lower, result_text) ==
    \/ MentionsGraphData(result_text)
    \/ Contains(goal_lower, kw_chart)
    \/ Contains(goal_lower, kw_graph)

\* orchestratoragent.py:141-151.
NativeResult(goal, result_text) ==
    [goal |-> goal, result |-> result_text,
     graph_data |-> IF ChartTrigger(Lower(goal), result_text)
                    THEN _extract_chart_data(result_text)
                    ELSE PyNone,
     status |-> "success"]

\* orchestratoragent.py:153-157.
EmptyResult(goal) ==
    [goal |-> goal, result |-> <<"No response received from the model">>,
     status |-> "error"]

\* orchestratoragent.py:170, the end of the diagnostic message.
ConfigurationAdvice ==
    ". This might be due to function calling configuration. Please check your Semantic Kernel version and Azure OpenAI setup."

\* orchestratoragent.py:168-172.
ErrorResult(goal, e) ==
    [goal |-> goal,
     result |-> <<"I encountered an error: ">> \o e.msg \o <<ConfigurationAdvice>>,
     status |-> "error"]

\* Lines 159-172 without the fallback's result: every dispatch failure reported as
\* an error.
run_except_always_error(goal, e, fb) == Ret(ErrorResult(goal, e))

\* Lines 159-172 without the inner except clause: a failure of the fallback leaves run.
run_except_reraises(goal, e, fb) == fb

\* orchestratoragent.py:159-172: the except clause of run, given the exception of
\* dispatch and the outcome of the fallback.
run_except(goal, e, fb) ==
    IF fb.kind = "raise" /\ IsException(fb.val) THEN Ret(ErrorResult(goal, e)) ELSE fb

\* main.py:82-94 with the two checks in the other order: the prompt, then the agent.
ask_agent_checks_prompt_first(ag, prompt) ==
    IF prompt = <<>>
    THEN ask_agent_try(HTTPException(400, <<"Prompt must be provided">>))
    ELSE IF ~ag.some THEN HTTPException(500, <<"Agent not initialized">>)
    ELSE Ret("run")

\* main.py:82-94: what ask_agent does before it calls run.
ask_agent_precheck(ag, prompt) ==
    IF ~ag.some THEN HTTPException(500, <<"Agent not initialized">>)
    ELSE IF prompt = <<>>
    THEN ask_agent_try(HTTPException(400, <<"Prompt must be provided">>))
    ELSE Ret("run")

\* main.py:97-115: what ask_agent does with the outcome of run.
ask_agent_finish(runOut) ==
    ask_agent_try(IF runOut.kind = "raise" THEN runOut
                  ELSE formatted_response(runOut.val))

Envs == [endpoint : {"", "https://example.openai.azure.com"},
         api_key : {"", "key"}, ctor : {"ok", "raise"}]

Init ==
    /\ started = FALSE
    /\ env \in Envs
    /\ agent = Nothing
    /\ chat_history = <<>>
    /\ req = [r \in Reqs |-> IdleReq]
    /\ tool = ToolIdle

\* main.py:51-65, the startup event; AzureFoundryAgent.__init__ creates chat_history.
Startup ==
    /\ ~started
    /\ started' = TRUE
    /\ agent' = startup_event(env)
    /\ chat_history' = <<>>
    /\ UNCHANGED <<env, req, tool>>

\* Lines 89-91 without the clear: the two messages are added behind what the
\* history holds.
run_history_without_clear(h, sys, usr) == Append(Append(h, sys), usr)

\* orchestratoragent.py:89-91: chat_history.clear(), add_system_message,
\* add_user_message.
run_history(h, sys, usr) == Append(Append(SubSeq(h, 1, 0), sys), usr)

\* A POST /ask arrives: ask_agent up to its await of run, and run up to its await
\* of the oracle (lines 64-134), or to the exception that ends dispatch.
AskBegin(r, prompt, build, settings) ==
    LET pre == ask_agent_precheck(agent, prompt)
        sys == Message("system", system_message, r)
        usr == Message("user", prompt, r)
        st == execution_settings(settings)
    IN /\ started
       /\ req[r].pc = "idle"
       /\ IF pre.kind = "raise"
          THEN /\ req' = [req EXCEPT ![r].pc = "done", ![r].prompt = prompt,
                                     ![r].http = HttpResponse(pre)]
               /\ UNCHANGED chat_history
          ELSE IF build = "raise"
          THEN /\ req' = [req EXCEPT ![r].pc = "fallback", ![r].prompt = prompt,
                                     ![r].runCalls = @ + 1, ![r].raisedAt = "build",
                                     ![r].e = [type |-> "ValueError",
                                               msg |-> <<"invalid message content">>]]
               /\ chat_history' = <<sys>>
          ELSE IF st.kind = "raise"
          THEN /\ req' = [req EXCEPT ![r].pc = "fallback", ![r].prompt = prompt,
                                     ![r].runCalls = @ + 1, ![r].raisedAt = "settings",
                                     ![r].e = st.val]
               /\ chat_history' = run_history(chat_history, sys, usr)
          ELSE /\ req' = [req EXCEPT ![r].pc = "await_oracle", ![r].prompt = prompt,
                                     ![r].runCalls = @ + 1]
               /\ chat_history' = run_history(chat_history, sys, usr)
       /\ UNCHANGED <<started, env, agent, tool>>

\* The request r ends with run's outcome `out`: ask_agent from line 99 to its answer.
Answered(rq, out) ==
    [rq EXCEPT !.pc = "done", !.out = out, !.http = HttpResponse(ask_agent_finish(out))]

\* The oracle call of request r ends: run from line 136 to its return or to the
\* exception that ends dispatch, and ask_agent from line 99 to its answer.
OracleReturn(r, kind, a, process) ==
    /\ req[r].pc = "await_oracle"
    /\ IF kind = "raise"
       THEN /\ req' = [req EXCEPT ![r].pc = "fallback", ![r].raisedAt = "oracle",
                                  ![r].e = [type |-> "ServiceError",
                                            msg |-> <<"service failed to complete the prompt">>]]
            /\ UNCHANGED chat_history
       ELSE IF kind = "empty"
       THEN /\ req' = [req EXCEPT ![r] = Answered(@, Ret(EmptyResult(req[r].prompt)))]
            /\ UNCHANGED chat_history
       ELSE IF process = "raise"
       THEN /\ req' = [req EXCEPT ![r].pc = "fallback", ![r].raisedAt = "process",
                                  ![r].e = [type |-> "TypeError",
                                            msg |-> <<"unsupported message content">>]]
            /\ UNCHANGED chat_history
       ELSE /\ req' = [req EXCEPT ![r] = Answered(@, Ret(NativeResult(req[r].prompt, a)))]
            /\ chat_history' = Append(chat_history, Message("assistant", a, r))
    /\ UNCHANGED <<started, env, agent, tool>>

\* The request r after its fallback ended with outcome fb.
FellBack(rq, fb) ==
    Answered([rq EXCEPT !.fbCalls = @ + 1, !.fbGoal = rq.prompt, !.fb = fb],
             run_except(rq.prompt, rq.e, fb))

\* Lines 159-172 and 174-236: the heuristic fallback of request r, against backend
\* b, and ask_agent from line 99 to its answer.
Fallback(r, b, invoke) ==
    /\ req[r].pc = "fallback"
    /\ req' = [req EXCEPT ![r] = FellBack(@, _intelligent_fallback(req[r].prompt,
                                                agent.v.plugins, b, invoke))]
    /\ UNCHANGED <<started, env, agent, chat_history, tool>>

Next ==
    \/ Startup
    \/ \E r \in Reqs, prompt \in Goals \cup {<<>>}, build \in {"ok", "raise"},
          settings \in SettingsKinds : AskBegin(r, prompt, build, settings)
    \/ \E r \in Reqs, kind \in OracleKinds, a \in Answers, process \in {"ok", "raise"} :
          OracleReturn(r, kind, a, process)
    \/ \E r \in Reqs, b \in FallbackBackends, invoke \in {"ok", "raise"} :
          Fallback(r, b, invoke)

Spec == Init /\ [][Next]_vars

ToolInit ==
    /\ started = FALSE
    /\ env = CHOOSE e \in Envs : e.endpoint = "" /\ e.api_key = "" /\ e.ctor = "ok"
    /\ agent = Nothing
    /\ chat_history = <<>>
    /\ req = [r \in Reqs |-> IdleReq]
    /\ tool \in ToolInputs

ToolSpec == ToolInit /\ [][ToolNext]_vars

(***************************************************************************)
(* The heuristic fallback on its own: every request has met an exception   *)
(* of the oracle call with a goal of FallbackGoals, and its fallback runs. *)
(***************************************************************************)
FallbackGoals ==
    Goals \cup
    {
      \* "plot sales"
      <<"p","l","o","t"," ","s","a","l","e","s">>,
      \* "Visualize"
      <<"V","i","s","u","a","l","i","z","e">>,
      \* "show a chart"
      <<"s","h","o","w"," ","a"," ","c","h","a","r","t">>,
      \* "graph the schema"
      <<"g","r","a","p","h"," ","t","h","e"," ","s","c","h","e","m","a">>,
      \* "chart the total"
      <<"c","h","a","r","t"," ","t","h","e"," ","t","o","t","a","l">>,
      \* "describe the table"
      <<"d","e","s","c","r","i","b","e"," ","t","h","e"," ","t","a","b","l","e">>,
      \* "describe users"
      <<"d","e","s","c","r","i","b","e"," ","u","s","e","r","s">>,
      \* "count telemetry_data"
      <<"c","o","u","n","t"," ","t","e","l","e","m","e","t","r","y","_","d","a","t","a">>,
      \* "count rows"
      <<"c","o","u","n","t"," ","r","o","w","s">>,
      \* "hello"
      <<"h","e","l","l","o">> }

FallbackInit ==
    /\ started = TRUE
    /\ env = CHOOSE e \in Envs : e.endpoint # "" /\ e.api_key # "" /\ e.ctor = "ok"
    /\ agent = startup_event(env)
    /\ chat_history = <<>>
    /\ req \in [Reqs -> {[IdleReq EXCEPT !.pc = "fallback", !.prompt = g, !.runCalls = 1,
                                         !.raisedAt = "oracle",
                                         !.e = [type |-> "ServiceError",
                                                msg |-> <<"service failed to complete the prompt">>]]
                         : g \in FallbackGoals}]
    /\ tool = ToolIdle

FallbackNext ==
    \E r \in Reqs, b \in FallbackBackends, invoke \in {"ok", "raise"} : Fallback(r, b, invoke)

FallbackSpec == FallbackInit /\ [][FallbackNext]_vars

(***************************************************************************)
(* Chart extraction on its own: every request asked for a chart and awaits *)
(* the oracle, which answers with a text of Responses; run then applies    *)
(* _extract_chart_data to it (orchestratoragent.py:143-144).               *)
(***************************************************************************)
Responses ==
    Answers \cup
    { \* a bare object with the field, behind a blank
      <<" ", "{", KeyGraphData, ":", "1", "}">>,
      \* a bare object without the field
      <<"{", "\"type\"", ":", "\"bar\"", "}">>,
      \* a leading brace that is no object
      <<"{", "oops">>,
      \* a fenced block that does not parse
      <<FenceOpen, "{", "oops", "}", FenceClose>>,
      \* a fenced object without the field
      <<"See:", FenceOpen, "\n", "{", "\"note\"", ":", "1", "}", "\n", FenceClose>>,
      \* a fenced object whose field is null
      <<FenceOpen, "{", KeyGraphData, ":", "null", "}", FenceClose>>,
      \* two fenced objects, the second with the field
      <<FenceOpen, "{", "\"note\"", ":", "1", "}", FenceClose, "\n",
        FenceOpen, "{", KeyGraphData, ":", "1", "}", FenceClose>>,
      \* a fenced block that does not parse, then a fenced object with the field
      <<FenceOpen, "{", "oops", "}", FenceClose, "\n",
        FenceOpen, "{", KeyGraphData, ":", "\"bar\"", "}", FenceClose>>,
      \* a fenced object with the field, closed by the fence of the next block
      <<FenceOpen, "{", KeyGraphData, ":", "1", "}", FenceOpen, "{", "}", FenceClose>> }

ExtractInit ==
    /\ started = TRUE
    /\ env = CHOOSE e \in Envs : e.endpoint # "" /\ e.api_key # "" /\ e.ctor = "ok"
    /\ agent = startup_event(env)
    /\ chat_history = <<Message("system", system_message, NReq),
                        Message("user", gChart, NReq)>>
    /\ req = [r \in Reqs |-> [IdleReq EXCEPT !.pc = "await_oracle", !.prompt = gChart,
                                             !.runCalls = 1]]
    /\ tool = ToolIdle

ExtractNext == \E r \in Reqs, a \in Responses : OracleReturn(r, "answer", a, "ok")

ExtractSpec == ExtractInit /\ [][ExtractNext]_vars

(***************************************************************************)
(* Properties of the server (Spec).                                        *)
(***************************************************************************)
Done(r) == req[r].pc = "done"

\* C1, for an initialized agent: a /ask request whose prompt is the empty string is
\* answered with HTTP status 400.
C1_EmptyPromptAnswered400 ==
    \A r \in Reqs :
        (agent.some /\ Done(r) /\ req[r].prompt = <<>>) => req[r].http.code = 400

\* C2: a request's conversation holds only that request's messages: while it awaits
\* the oracle the shared history is its own system message and goal, and an
\* assistant message is appended behind messages of the same request only.
C2_IndependentConversations ==
    /\ \A r \in Reqs :
          req[r].pc = "await_oracle" =>
              chat_history = <<Message("system", system_message, r),
                               Message("user", req[r].prompt, r)>>
    /\ \A i \in 1..Len(chat_history) :
          chat_history[i].role = "assistant" =>
              \A j \in 1..i : chat_history[j].by = chat_history[i].by

\* C3: when a step of dispatch raises, the fallback is invoked exactly once, with the
\* request's goal, and what it returns is the result of run; when dispatch raises
\* nothing the fallback is never invoked.
C3_FallbackOnceOnDispatchError ==
    \A r \in Reqs :
        /\ req[r].raisedAt = "none" => req[r].fbCalls = 0
        /\ (Done(r) /\ req[r].raisedAt # "none") =>
              /\ req[r].fbCalls = 1
              /\ req[r].fbGoal = req[r].prompt
              /\ req[r].fb.kind = "return" => req[r].out = req[r].fb

\* C3's case: the oracle call raised and the fallback's return value is the result.
C3_Witness ==
    \E r \in Reqs :
        /\ Done(r)
        /\ req[r].raisedAt = "oracle"
        /\ req[r].fbCalls = 1
        /\ req[r].fb.kind = "return"
        /\ req[r].out = req[r].fb

\* C4: every result the fallback returns has status "success", the Tool Provider's
\* error texts included; a request that entered the fallback ends with status
\* "error" only when the fallback raised, and then its result ends with the advice
\* to check the configuration.
C4_FallbackReportsSuccess ==
    \A r \in Reqs :
        req[r].fbCalls > 0 =>
            /\ req[r].fb.kind = "return" => req[r].fb.val.status = "success"
            /\ req[r].out.val.status = "error" =>
                  /\ req[r].fb.kind = "raise"
                  /\ req[r].out.val.result[Len(req[r].out.val.result)]
                        = ConfigurationAdvice

\* C4's cases: one request whose fallback returned the Tool Provider's error text
\* with status "success", another whose fallback raised and ended with "error".
C4_Witness ==
    \E r1, r2 \in Reqs :
        /\ Done(r1) /\ req[r1].fbCalls = 1 /\ req[r1].fb.kind = "return"
        /\ Contains(req[r1].fb.val.result, <<"Error listing tables: ">>)
        /\ req[r1].out.val.status = "success"
        /\ Done(r2) /\ req[r2].fbCalls = 1 /\ req[r2].fb.kind = "raise"
        /\ req[r2].out.val.status = "error"

\* C5: with the agent initialized and a non-empty prompt, run returns a record whose
\* status is "success" or "error", and /ask answers 200 with that result and status.
C5_OrchestrationFailureIs200 ==
    \A r \in Reqs :
        (agent.some /\ Done(r) /\ req[r].prompt # <<>>) =>
            /\ req[r].out.kind = "return"
            /\ req[r].out.val.status \in {"success", "error"}
            /\ req[r].http.code = 200
            /\ req[r].http.body.response = req[r].out.val.result
            /\ req[r].http.body.status = req[r].out.val.status

\* C5's case: dispatch raised, the fallback raised as well, and /ask answered 200
\* with status "error".
C5_Witness ==
    \E r \in Reqs :
        /\ agent.some /\ Done(r) /\ req[r].prompt # <<>>
        /\ req[r].raisedAt # "none"
        /\ req[r].fb.kind = "raise"
        /\ req[r].http.code = 200
        /\ req[r].http.body.status = "error"

\* run's result holds a chart structure
HasChart(out) ==
    /\ out.kind = "return"
    /\ "graph_data" \in DOMAIN out.val
    /\ out.val.graph_data # PyNone

\* C6: when run's result holds a chart structure the /ask response carries the same
\* structure in graph_data, and graph_data is null in the response only when run
\* extracted none.
C6_ChartPayloadReturned ==
    \A r \in Reqs :
        (Done(r) /\ req[r].http.code = 200) =>
            /\ HasChart(req[r].out) =>
                  req[r].http.body.graph_data = req[r].out.val.graph_data
            /\ req[r].http.body.graph_data = PyNone => ~HasChart(req[r].out)

\* startup_event set no agent
InitFailed ==
    started /\ (env.endpoint = "" \/ env.api_key = "" \/ env.ctor = "raise")

\* C7: after a failed initialization the agent is unset in every state, run is never
\* called, and every /ask request is answered 500 "Agent not initialized".
C7_UninitializedAnswers500 ==
    InitFailed =>
        /\ ~agent.some
        /\ \A r \in Reqs :
              /\ req[r].runCalls = 0
              /\ req[r].pc \in {"idle", "done"}
              /\ Done(r) => /\ req[r].http.code = 500
                            /\ req[r].http.body.detail = <<"Agent not initialized">>

\* C7's case: the constructor raised, and a request with an empty prompt and one
\* with a goal were both answered 500.
C7_Witness ==
    /\ InitFailed
    /\ env.ctor = "raise" /\ env.endpoint # "" /\ env.api_key # ""
    /\ \E r1, r2 \in Reqs :
          /\ Done(r1) /\ req[r1].prompt = <<>> /\ req[r1].http.code = 500
          /\ Done(r2) /\ req[r2].prompt # <<>> /\ req[r2].http.code = 500

(***************************************************************************)
(* Properties of the Tool Provider (ToolSpec).                             *)
(***************************************************************************)
\* s.endswith(p)
EndsWith(s, p) == Len(p) <= Len(s) /\ SubSeq(s, Len(s) - Len(p) + 1, Len(s)) = p

\* The backend refuses every call: no credentials, no connection, or a failing execute.
BackendDown(b) == ~b.creds \/ b.connect = "fail" \/ b.fault # "none"

\* The message of the exception such a backend raises.
BackendError(b) ==
    IF _get_connection(b).kind = "raise" THEN _get_connection(b).val.msg
    ELSE cursor_result(b, FALSE, [k |-> "absent"]).val.msg

\* The call met a result without column metadata where it reads the metadata.
MetadataMissing ==
    /\ ~BackendDown(tool.b)
    /\ ~tool.b.meta
    /\ tool.op \in {"execute_sql_query", "execute_query_for_chart"}
    /\ cursor_execute(tool.b, tool.out.sent.v).kind = "return"
    /\ \/ tool.op = "execute_query_for_chart"
       \/ cursor_execute(tool.b, tool.out.sent.v).val.rows # <<>>

\* What the operation returned describes the failure msg.
Reports(msg) ==
    IF tool.op = "execute_query_for_chart"
    THEN /\ "error" \in DOMAIN tool.out.val.obj
         /\ Contains(tool.out.val.obj.error, msg)
    ELSE Contains(tool.out.val, msg)

\* C8: no operation of the Tool Provider raises: when the backend lacks credentials,
\* refuses the connection, fails the statement or returns no column metadata, the
\* operation returns a text (execute_query_for_chart: a JSON object with an "error"
\* field) that holds the failure's message.
C8_ToolProviderNeverRaises ==
    tool.op # "none" =>
        /\ tool.out.kind = "return"
        /\ BackendDown(tool.b) => Reports(BackendError(tool.b))
        /\ MetadataMissing => Reports(<<"'NoneType' object is not iterable">>)

\* C8's case: execute_query_for_chart against a backend without credentials returned
\* a JSON object with an "error" field.
C8_Witness ==
    /\ tool.op = "execute_query_for_chart"
    /\ ~tool.b.creds
    /\ tool.out.kind = "return"
    /\ "error" \in DOMAIN tool.out.val.obj

\* The query is a SELECT statement: its first word is SELECT, in any case.
IsSelectQuery(query) ==
    Split(Upper(query)) # <<>> /\ Split(Upper(query))[1] = kwSELECT

\* The query has a LIMIT clause: the word LIMIT, in any case.
HasLimitClause(query) == LimitClause(query).k # "absent"

LimitSuffix(limit) == <<" ">> \o kwLIMIT \o <<" ">> \o IntToStr(limit)

\* C9: execute_sql_query sends the query with " LIMIT <limit>" appended (behind the
\* statement, or behind its text with the final semicolons dropped) exactly when the
\* query is a SELECT without a LIMIT clause, and sends it unchanged otherwise.
C9_LimitAppendedToUnlimitedSelect ==
    (tool.op = "execute_sql_query" /\ tool.out.sent.some) =>
        IF IsSelectQuery(tool.query) /\ ~HasLimitClause(tool.query)
        THEN \/ tool.out.sent.v = tool.query \o LimitSuffix(tool.limit)
             \/ tool.out.sent.v = RStripSet(tool.query, {";"}) \o LimitSuffix(tool.limit)
        ELSE tool.out.sent.v = tool.query

\* execute_sql_query got a result set from the backend
ResultSetReturned ==
    /\ tool.op = "execute_sql_query"
    /\ tool.out.sent.some
    /\ cursor_execute(tool.b, tool.out.sent.v).kind = "return"

ReturnedRows == cursor_execute(tool.b, tool.out.sent.v).val.rows

EndsWithNotice == EndsWith(tool.out.val, TruncationNotice(tool.limit))

\* C10, as stated: for every limit and every result set, the text ends with the
\* truncation notice if and only if the rows returned are limit or more.
C10_NoticeIffLimitOrMoreRows ==
    ResultSetReturned => (EndsWithNotice <=> Len(ReturnedRows) >= tool.limit)

\* C10, amended: for every limit and every result set that is not empty and carries
\* column metadata, the text ends with the truncation notice if and only if the rows
\* returned are limit or more; for an empty result set, and for one without column
\* metadata, the text never ends with the notice.
C10_NoticeIffLimitOrMoreRowsShown ==
    ResultSetReturned =>
        (EndsWithNotice <=> /\ ReturnedRows # <<>>
                            /\ tool.b.meta
                            /\ Len(ReturnedRows) >= tool.limit)

\* C10's case: exactly limit rows, not none, and the text ends with the notice.
C10_Witness ==
    /\ ResultSetReturned
    /\ ReturnedRows # <<>>
    /\ Len(ReturnedRows) = tool.limit
    /\ EndsWithNotice

\* The data rows of a table text: its line ends, less the header line and the rule.
DataRows(text) == Cardinality({i \in 1..Len(text) : text[i] = "\n"}) - 2

\* execute_sql_query returned a table text
TableReturned == ResultSetReturned /\ ReturnedRows # <<>> /\ tool.b.meta

\* C11, for a limit of 1 or more: the table text execute_sql_query returns holds at
\* most limit data rows, for every query (SELECT or not, with a LIMIT clause of its
\* own or without) and every result set.
C11_AtMostLimitRows ==
    (TableReturned /\ tool.limit >= 1) => DataRows(tool.out.val) <= tool.limit

(***************************************************************************)
(* Properties of the heuristic fallback (FallbackSpec).                    *)
(***************************************************************************)
\* The goal of request r, in lower case, holds one of chart, graph, visualize, plot.
AsksForChart(r) ==
    \E w \in { <<"c","h","a","r","t">>, <<"g","r","a","p","h">>,
               <<"v","i","s","u","a","l","i","z","e">>, <<"p","l","o","t">> } :
        Contains(Lower(req[r].prompt), w)

AsksToList(r) == AnyWordIn(ListWords, Lower(req[r].prompt))

AsksToDescribe(r) == AnyWordIn(DescribeWords, Lower(req[r].prompt))

AsksToCount(r) == AnyWordIn(CountWords, Lower(req[r].prompt))

\* The fallback of request r returned the clarification, whatever the backend and
\* the kernel's invocations do: it invoked no operation of the Tool Provider.
Clarified(r) == req[r].fb = Ret(FallbackResult(req[r].prompt, ClarificationText))

GotCapabilities(r) ==
    req[r].fb.kind = "return" /\ req[r].fb.val.result = CapabilityText

\* C12, as stated: every goal that holds chart, graph, visualize or plot gets the
\* clarification and no tool is invoked, and the capability message is returned
\* only for goals that match none of the four families.
C12_ChartGoalsClarified ==
    \A r \in Reqs :
        req[r].fbCalls = 1 =>
            /\ AsksForChart(r) => Clarified(r)
            /\ GotCapabilities(r) =>
                  ~(AsksToList(r) \/ AsksToDescribe(r) \/ AsksToCount(r) \/ AsksForChart(r))

\* C12, amended: the families are tried in the order list, describe, count, chart
\* and the first that matches decides.  A goal that holds a chart word and no word
\* of the three families before gets the clarification and no tool is invoked; the
\* capability message is returned exactly for the goals that match no family, the
\* describe goals whose words are all in the stop list, and the count goals that
\* do not name telemetry_data.
C12_FirstFamilyDecides ==
    \A r \in Reqs :
        req[r].fbCalls = 1 =>
            /\ (AsksForChart(r) /\ ~AsksToList(r) /\ ~AsksToDescribe(r) /\ ~AsksToCount(r))
                  => Clarified(r)
            /\ (AsksForChart(r) /\ AsksToList(r)) => ~Clarified(r)
            /\ GotCapabilities(r) <=>
                  /\ ~AsksToList(r)
                  /\ \/ ~(AsksToDescribe(r) \/ AsksToCount(r) \/ AsksForChart(r))
                     \/ /\ AsksToDescribe(r)
                        /\ \A w \in WordStarts(Lower(req[r].prompt)) :
                              WordAt(Lower(req[r].prompt), w) \in StopWords
                     \/ /\ ~AsksToDescribe(r) /\ AsksToCount(r)
                        /\ ~Contains(Lower(req[r].prompt), strTelemetry)

\* C12's case: one goal with a chart word alone got the clarification, another with
\* a chart word behind a list word got the table list instead.
C12_Witness ==
    \E r1, r2 \in Reqs :
        /\ req[r1].fbCalls = 1 /\ AsksForChart(r1) /\ ~AsksToList(r1) /\ Clarified(r1)
        /\ req[r2].fbCalls = 1 /\ AsksForChart(r2) /\ AsksToList(r2)
        /\ req[r2].fb.kind = "return"
        /\ req[r2].fb.val.result[1] = "Here are the available tables:\n"

(***************************************************************************)
(* Properties of chart extraction (ExtractSpec).                           *)
(***************************************************************************)
\* The fenced json blocks of a text: an opening fence and the next closing fence.
FencedBlocks(t) ==
    {m \in (1..Len(t)) \X (1..Len(t)) :
        /\ t[m[1]] = FenceOpen
        /\ m[2] > m[1]
        /\ t[m[2]] \in {FenceClose, FenceOpen}
        /\ \A k \in (m[1] + 1)..(m[2] - 1) : t[k] \notin {FenceClose, FenceOpen}}

\* What a block holds parses as an object with the field graph_data.
HoldsChart(t, m) ==
    /\ json_loads(SubSeq(t, m[1] + 1, m[2] - 1)).kind = "return"
    /\ HasKey(json_loads(SubSeq(t, m[1] + 1, m[2] - 1)).val, KeyGraphData)

ChartOf(t, m) == DictGet(json_loads(SubSeq(t, m[1] + 1, m[2] - 1)).val, KeyGraphData)

\* The whole text starts with a brace and parses as one object with the field.
IsChartObject(t) ==
    /\ Strip(t) # <<>> /\ Strip(t)[1] = "{"
    /\ json_loads(t).kind = "return"
    /\ HasKey(json_loads(t).val, KeyGraphData)

\* What the claim says the extraction returns for a text, given what it returned.
ExtractedAsClaimed(t, got) ==
    IF \E m \in FencedBlocks(t) : HoldsChart(t, m)
    THEN \E m \in FencedBlocks(t) : HoldsChart(t, m) /\ got = ChartOf(t, m)
    ELSE IF IsChartObject(t) THEN got = DictGet(json_loads(t).val, KeyGraphData)
    ELSE got = PyNone

\* C13: _extract_chart_data does not raise and returns the graph_data field of a
\* fenced json object of the response that parses and has the field, else the
\* field of the whole response when it starts with a brace, parses as one object
\* and has the field, and None in every other case.
C13_ExtractsChartData ==
    \A r \in Reqs :
        Done(r) =>
            /\ req[r].raisedAt = "none"
            /\ req[r].out.kind = "return"
            /\ ExtractedAsClaimed(req[r].out.val.result, req[r].out.val.graph_data)

\* No run is between its start and its end: every request is yet to arrive or
\* has been answered.
NoRunInFlight == \A q \in Reqs : req[q].pc \in {"idle", "done"}

\* The step by which the run of request r reaches its call of the oracle.
CallsOracle(r) == req[r].pc = "idle" /\ req'[r].pc = "await_oracle"

\* C14: when a run starts while no other run is in flight, whatever the earlier
\* runs ended with, the chat history at its call of the oracle is exactly two
\* messages, both its own: the system instructions, then its goal as the user turn.
C14_FreshHistoryAtOracleCall ==
    [][\A r \in Reqs :
          (NoRunInFlight /\ CallsOracle(r)) =>
              chat_history' = <<Message("system", system_message, r),
                                Message("user", req'[r].prompt, r)>>]_vars

\* C14's case: an earlier run ended by native success, which left its three
\* messages in the history, and the next run is at its call of the oracle with
\* its own two messages only.
C14_Witness ==
    \E r \in Reqs, q \in Reqs :
        /\ q # r
        /\ req[r].pc = "await_oracle"
        /\ Done(q)
        /\ req[q].raisedAt = "none"
        /\ req[q].out.kind = "return"
        /\ req[q].out.val.status = "success"
        /\ chat_history = <<Message("system", system_message, r),
                            Message("user", req[r].prompt, r)>>

=============================================================================
